---- MODULE Spec2Model ----
(***************************************************************************)
(* FreeListAllocator (src/FreeListAllocatorCustom.h) over a byte-addressed *)
(* arena.  The arena is modelled byte by byte because the allocator keeps  *)
(* its FreeBlock and AllocationHeader records inside the memory it hands   *)
(* out: which record overlaps which bytes decides most of its behaviour.   *)
(*                                                                         *)
(* Layout (LP64, little endian, as built by the repository's main()):      *)
(*   FreeBlock        { int size @0; FreeBlock* next @8; FreeBlock* prev   *)
(*                      @16 }                       sizeof == 24           *)
(*   AllocationHeader { int size @0; uintptr_t adjustment @8 }             *)
(*                                                  sizeof == 16           *)
(* Addresses are absolute; the arena is [Start, Start + ArenaSize) and is  *)
(* followed by Guard bytes that do not belong to it.                       *)
(***************************************************************************)
EXTENDS Integers, Sequences, FiniteSets, TLC

\* ---------------------------------------------------------------- bounds
ArenaSize == 128
Start == 4096
Guard == 8
Fuel == 12
MaxOps == 6
MaxArenas == 2
MaxBuffers == 3
MaxBindings == 2
MaxChain == 2
AlignSpan == 40

\* the requests <<size, alignment>> the client makes
Requests == {<<2, 1>>, <<25, 1>>, <<8, 8>>, <<8, 32>>}
InitFill == {205}
Pattern == 170

\* ------------------------------------------------------ program constants
SizeofHeader == 16
SizeofFreeBlock == 24
OffNext == 8
OffPrev == 16
OffAdjustment == 8
IntBytes == 4
PtrBytes == 8

\* the buffers malloc can hand out, more than one arena's length apart
BufferStride == 4096
Buffers == {Start + i * BufferStride : i \in 1..MaxBuffers}
Null == 0
Bad == 0 - 1

VARIABLES
    m_start,           \* Allocator::m_start, the address of the buffer
    m_size,            \* Allocator::m_size, the length of the arena
    mem,               \* the bytes of [m_start, m_start + MemSize)
    m_freeBlocks,      \* FreeListAllocator::m_freeBlocks
    m_usedBytes,       \* Allocator::m_usedBytes
    m_numAllocations,  \* Allocator::m_numAllocations
    live,              \* the client's view: pointers returned and not yet freed
    last,              \* the call made last and what it returned
    status,            \* "ok", or "undefined" after a wild access
    build,             \* how the build resolves Free's second load (see Free)
    ops,               \* calls made so far
    arenas,            \* the allocator objects the bindings refer to
    prevBlock,         \* DynamicAllocator::BlockDesc::prevBlock, by block address
    handed,            \* the buffers malloc has handed out
    bindings,          \* STLAdaptor objects: the allocator each one refers to
    cmp,               \* the comparison of two bindings made last
    alignCall          \* the call of align_forward_adjustment_with_header made last

allocatorVars ==
    <<m_start, m_size, mem, m_freeBlocks, m_usedBytes, m_numAllocations, live, last,
      status, build, ops>>

adaptorVars == <<arenas, prevBlock, handed, bindings, cmp>>

vars == <<allocatorVars, adaptorVars, alignCall>>

\* ------------------------------------------------------------ raw memory
\* A call runs on an environment e: e.b maps the offsets 0..MemSize-1 to
\* bytes, e.ok turns FALSE as soon as an access leaves the modelled range or
\* a value that no size or address of the model can hold is read (a wild
\* access: the behaviour of the program is undefined from there on); the
\* other fields are the locals of the function.

\* the modelled bytes: the arena and the Guard bytes that follow it
MemSize == m_size + Guard

InMem(a, n) == a >= m_start /\ a + n <= m_start + MemSize

InArena(a, n) == a >= m_start /\ a + n <= m_start + m_size

\* little-endian load of n bytes; Bad when out of range or not representable
Rd(b, a, n) ==
    IF a = Bad \/ ~InMem(a, n) THEN Bad
    ELSE IF \E i \in 3..(n-1) : b[a - m_start + i] # 0 THEN Bad
    ELSE b[a - m_start] + 256 * b[a - m_start + 1] + 65536 * b[a - m_start + 2]

\* the bytes after a little-endian store of v in n bytes (n is IntBytes or
\* PtrBytes); every value the model stores is below 2^24
Stored(b, o, n, v) ==
    IF n = IntBytes
    THEN [b EXCEPT ![o] = v % 256, ![o + 1] = (v \div 256) % 256,
                   ![o + 2] = (v \div 65536) % 256, ![o + 3] = 0]
    ELSE [b EXCEPT ![o] = v % 256, ![o + 1] = (v \div 256) % 256,
                   ![o + 2] = (v \div 65536) % 256, ![o + 3] = 0,
                   ![o + 4] = 0, ![o + 5] = 0, ![o + 6] = 0, ![o + 7] = 0]

Wr(e, a, n, v) ==
    IF ~e.ok \/ a = Bad \/ v = Bad \/ ~InMem(a, n) THEN [e EXCEPT !.ok = FALSE]
    ELSE [e EXCEPT !.b = Stored(e.b, a - m_start, n, v)]

\* local := v; a Bad value is a wild read
Asg(e, local, v) ==
    IF v = Bad THEN [e EXCEPT !.ok = FALSE] ELSE [e EXCEPT ![local] = v]

Plus(a, b) == IF a = Bad \/ b = Bad THEN Bad ELSE a + b

\* unsigned subtraction: a wrap-around leaves the modelled address range
Minus(a, b) == IF a = Bad \/ b = Bad \/ b > a THEN Bad ELSE a - b

\* --------------------------------------------------- Header/Alignment module
RECURSIVE BitAnd(_, _)
BitAnd(x, y) ==
    IF x = 0 \/ y = 0 THEN 0
    ELSE (x % 2) * (y % 2) + 2 * BitAnd(x \div 2, y \div 2)

\* x & ~k in unsigned arithmetic
AndNot(x, k) == x - BitAnd(x, k)

\* the adjustment before the header is made room for: lines 229-231
ForwardAdjustment(iptr, alignment) ==
    AndNot(iptr + (alignment - 1), alignment - 1) - iptr

\* a variant that makes room for a whole header whatever the adjustment is
WithHeaderAlways(adjustment, alignment) ==
    adjustment + alignment * ((SizeofHeader + alignment - 1) \div alignment)

\* a variant that makes room for the header with the missing bytes alone,
\* without rounding them up to a multiple of the alignment
WithHeaderUnrounded(adjustment, alignment) ==
    IF adjustment < SizeofHeader
    THEN adjustment + (SizeofHeader - adjustment)
    ELSE adjustment

\* lines 233-241
WithHeader(adjustment, alignment) ==
    IF adjustment < SizeofHeader
    THEN adjustment
         + alignment * (((SizeofHeader - adjustment) + alignment - 1) \div alignment)
    ELSE adjustment

align_forward_adjustment_with_header(iptr, alignment) ==
    WithHeader(ForwardAdjustment(iptr, alignment), alignment)

ptr_add(p, amount) == Plus(p, amount)

ptr_sub(ptr, sizeHeader) == Minus(ptr, sizeHeader)

\* ------------------------------------------------------------ field access
SizeAt(b, blk) == Rd(b, blk, IntBytes)
NextAt(b, blk) == Rd(b, Plus(blk, OffNext), PtrBytes)
PrevAt(b, blk) == Rd(b, Plus(blk, OffPrev), PtrBytes)

SetSize(e, blk, v) == Wr(e, blk, IntBytes, v)
SetNext(e, blk, v) == Wr(e, Plus(blk, OffNext), PtrBytes, v)
SetPrev(e, blk, v) == Wr(e, Plus(blk, OffPrev), PtrBytes, v)

\* if (p->field != nullptr) p->field->other = v, for the two link fields
LinkNextBack(e, p, v) ==
    IF NextAt(e.b, p) = Null THEN e ELSE SetPrev(e, NextAt(e.b, p), v)

LinkPrevForward(e, p, v) ==
    IF PrevAt(e.b, p) = Null THEN e ELSE SetNext(e, PrevAt(e.b, p), v)

\* --------------------------------------------------------------- Allocate
AllocEnv(b, head, size, alignment) ==
    [ok |-> TRUE, b |-> b, head |-> head, size |-> size, alignment |-> alignment,
     freeBlock |-> head, bestFit |-> Null, bestFitTotalSize |-> 0,
     bestFitAdjustment |-> 0, adjustment |-> 0, totalSize |-> 0,
     newBlock |-> Null, alignedAddr |-> Null]

\* lines 98-99
SearchSizes(e) ==
    Asg(Asg(e, "adjustment",
            align_forward_adjustment_with_header(e.freeBlock, e.alignment)),
        "totalSize",
        e.size + align_forward_adjustment_with_header(e.freeBlock, e.alignment)
               + SizeofHeader)

\* a variant that accepts a block whose size equals the total size
BetterOrExact(e) ==
    /\ SizeAt(e.b, e.freeBlock) >= e.totalSize
    /\ (e.bestFit = Null \/ SizeAt(e.b, e.freeBlock) < SizeAt(e.b, e.bestFit))

\* a variant that keeps the first block that qualifies (first fit)
BetterFirstFit(e) ==
    /\ SizeAt(e.b, e.freeBlock) > e.totalSize
    /\ e.bestFit = Null

\* the test of line 101
Better(e) ==
    /\ SizeAt(e.b, e.freeBlock) > e.totalSize
    /\ (e.bestFit = Null \/ SizeAt(e.b, e.freeBlock) < SizeAt(e.b, e.bestFit))

\* the test reads a size that cannot be read: a wild read
BetterIsWild(e) ==
    \/ SizeAt(e.b, e.freeBlock) = Bad
    \/ /\ SizeAt(e.b, e.freeBlock) > e.totalSize
       /\ e.bestFit # Null
       /\ SizeAt(e.b, e.bestFit) = Bad

\* lines 109-111
Keep(e) ==
    [e EXCEPT !.bestFit = e.freeBlock, !.bestFitAdjustment = e.adjustment,
              !.bestFitTotalSize = e.totalSize]

\* lines 104-107
DefensiveLinks(e) ==
    LinkPrevForward(LinkNextBack(e, e.freeBlock, e.freeBlock), e.freeBlock, e.freeBlock)

\* lines 101-112
SearchTake(e) ==
    IF BetterIsWild(e) THEN [e EXCEPT !.ok = FALSE]
    ELSE IF Better(e) THEN Keep(DefensiveLinks(e))
    ELSE e

\* line 114
SearchAdvance(e) == Asg(e, "freeBlock", NextAt(e.b, e.freeBlock))

\* the loop of lines 96-115
RECURSIVE Search(_, _)
Search(e, fuel) ==
    IF e.freeBlock = Null \/ ~e.ok THEN e
    ELSE IF fuel = 0 THEN [e EXCEPT !.ok = FALSE]
    ELSE Search(SearchAdvance(SearchTake(SearchSizes(e))), fuel - 1)

\* line 122
ConsumeSize(e) == Asg(e, "bestFitTotalSize", SizeAt(e.b, e.bestFit))

\* lines 124-127
ConsumeUnlinkPrev(e) ==
    IF PrevAt(e.b, e.bestFit) # Null
    THEN SetNext(e, PrevAt(e.b, e.bestFit), NextAt(e.b, e.bestFit))
    ELSE Asg(e, "head", NextAt(e.b, e.bestFit))

\* lines 129-130
ConsumeUnlinkNext(e) == LinkNextBack(e, e.bestFit, PrevAt(e.b, e.bestFit))

\* the whole block is consumed: lines 122-130
Consume(e) == ConsumeUnlinkNext(ConsumeUnlinkPrev(ConsumeSize(e)))

\* line 134
SplitNewBlock(e) == Asg(e, "newBlock", ptr_add(e.bestFit, e.bestFitTotalSize))

\* line 135
SplitSize(e) == SetSize(e, e.newBlock, Minus(SizeAt(e.b, e.bestFit), e.bestFitTotalSize))

\* line 136
SplitNext(e) == SetNext(e, e.newBlock, NextAt(e.b, e.bestFit))

\* line 137
SplitPrev(e) == SetPrev(e, e.newBlock, PrevAt(e.b, e.bestFit))

\* lines 139-140
SplitLinkNext(e) == LinkNextBack(e, e.bestFit, e.newBlock)

\* lines 141-144
SplitLinkPrev(e) ==
    IF PrevAt(e.b, e.bestFit) # Null
    THEN SetNext(e, PrevAt(e.b, e.bestFit), e.newBlock)
    ELSE [e EXCEPT !.head = e.newBlock]

\* the block is split: lines 134-144
Split(e) ==
    SplitLinkPrev(SplitLinkNext(SplitPrev(SplitNext(SplitSize(SplitNewBlock(e))))))

\* the test of line 120
ConsumesWhole(e) == SizeAt(e.b, e.bestFit) <= e.bestFitTotalSize + SizeofHeader

\* lines 120-147
Carve(e) ==
    IF SizeAt(e.b, e.bestFit) = Bad THEN [e EXCEPT !.ok = FALSE]
    ELSE IF ConsumesWhole(e) THEN Consume(e)
    ELSE Split(e)

\* line 149
AlignedAddr(e) == Asg(e, "alignedAddr", e.bestFit + e.bestFitAdjustment)

\* lines 150-151
HeaderAdjustmentStore(e) ==
    Wr(e, Plus(Minus(e.alignedAddr, SizeofHeader), OffAdjustment), PtrBytes,
       e.bestFitAdjustment)

\* line 152
HeaderSizeStore(e) ==
    Wr(e, Minus(e.alignedAddr, SizeofHeader), IntBytes, e.bestFitTotalSize)

\* what the call leaves: "ok" (alignedAddr is returned, lines 154-157),
\* "bad_alloc" (thrown at line 118), "undefined" (a wild access)
AllocOutcome(e) ==
    IF ~e.ok THEN [res |-> "undefined"]
    ELSE [res |-> "ok", b |-> e.b, head |-> e.head, ptr |-> e.alignedAddr,
          block |-> e.bestFit, total |-> e.bestFitTotalSize,
          adj |-> e.bestFitAdjustment]

\* lines 117-157, after the search
AfterSearch(e) ==
    IF ~e.ok THEN [res |-> "undefined"]
    ELSE IF e.bestFit = Null THEN [res |-> "bad_alloc", b |-> e.b, head |-> e.head]
    ELSE AllocOutcome(HeaderSizeStore(HeaderAdjustmentStore(AlignedAddr(Carve(e)))))

\* Allocate(size, alignment) on the bytes b with m_freeBlocks = head
Allocate(b, head, size, alignment) ==
    AfterSearch(Search(AllocEnv(b, head, size, alignment), Fuel))

\* ------------------------------------------------------------------- Free
FreeEnv(b, head, ptr, reload) ==
    [ok |-> TRUE, b |-> b, head |-> head, ptr |-> ptr, reload |-> reload,
     header |-> Null, adjustment |-> 0, blockStart |-> Null, blockSize |-> 0,
     blockEnd |-> Null, prevFreeBlock |-> Null, freeBlock |-> head,
     newBlock |-> Null, zeroFrom |-> Null]

\* line 165
FreeHeader(e) == Asg(e, "header", ptr_sub(e.ptr, SizeofHeader))

\* line 166: the first load of header->adjustment
FreeAdjustment(e) ==
    Asg(e, "adjustment", Rd(e.b, Plus(e.header, OffAdjustment), PtrBytes))

FreeBlockStart(e) == Asg(e, "blockStart", Minus(e.ptr, e.adjustment))

\* line 167
FreeBlockSize(e) == Asg(e, "blockSize", Rd(e.b, e.header, IntBytes))

\* line 168
FreeBlockEnd(e) == Asg(e, "blockEnd", e.blockStart + e.blockSize)

\* the scan for the insertion point: lines 173-177
ScanAdvance(e) ==
    Asg([e EXCEPT !.prevFreeBlock = e.freeBlock], "freeBlock", NextAt(e.b, e.freeBlock))

RECURSIVE Scan(_, _)
Scan(e, fuel) ==
    IF ~(e.freeBlock # Null /\ e.freeBlock < e.blockStart) \/ ~e.ok THEN e
    ELSE IF fuel = 0 THEN [e EXCEPT !.ok = FALSE]
    ELSE Scan(ScanAdvance(e), fuel - 1)

\* lines 179-182
NewBlock(e) == [e EXCEPT !.newBlock = e.blockStart]
NewBlockSize(e) == SetSize(e, e.newBlock, e.blockSize)
NewBlockNext(e) == SetNext(e, e.newBlock, e.freeBlock)
NewBlockPrev(e) == SetPrev(e, e.newBlock, e.prevFreeBlock)

\* the test of lines 184-185
TouchesPrev(e) ==
    /\ PrevAt(e.b, e.newBlock) # Null
    /\ Plus(PrevAt(e.b, e.newBlock), SizeAt(e.b, PrevAt(e.b, e.newBlock))) = e.newBlock

\* line 187
BackSize(e) ==
    SetSize(e, PrevAt(e.b, e.newBlock),
            Plus(SizeAt(e.b, PrevAt(e.b, e.newBlock)), SizeAt(e.b, e.newBlock)))

\* line 188
BackNext(e) == SetNext(e, PrevAt(e.b, e.newBlock), NextAt(e.b, e.newBlock))

\* lines 190-193
BackLinkNext(e) == LinkNextBack(e, e.newBlock, PrevAt(e.b, e.newBlock))

\* line 195
BackNewBlock(e) == Asg(e, "newBlock", PrevAt(e.b, e.newBlock))

\* merge into the predecessor: lines 184-196
MergeBack(e) ==
    IF PrevAt(e.b, e.newBlock) # Null /\ SizeAt(e.b, PrevAt(e.b, e.newBlock)) = Bad
    THEN [e EXCEPT !.ok = FALSE]
    ELSE IF TouchesPrev(e) THEN BackNewBlock(BackLinkNext(BackNext(BackSize(e))))
    ELSE e

\* the test of lines 198-199
TouchesNext(e) ==
    /\ NextAt(e.b, e.newBlock) # Null
    /\ Plus(e.newBlock, SizeAt(e.b, e.newBlock)) = NextAt(e.b, e.newBlock)

\* line 201
ForwardSize(e) ==
    SetSize(e, e.newBlock,
            Plus(SizeAt(e.b, e.newBlock), SizeAt(e.b, NextAt(e.b, e.newBlock))))

\* line 202
ForwardNext(e) == SetNext(e, e.newBlock, NextAt(e.b, NextAt(e.b, e.newBlock)))

\* lines 204-207
ForwardLinkPrev(e) == LinkPrevForward(e, e.newBlock, e.newBlock)

\* merge the successor in: lines 198-208
MergeForward(e) ==
    IF NextAt(e.b, e.newBlock) = Bad \/ SizeAt(e.b, e.newBlock) = Bad
    THEN [e EXCEPT !.ok = FALSE]
    ELSE IF TouchesNext(e) THEN ForwardLinkPrev(ForwardNext(ForwardSize(e)))
    ELSE e

\* lines 210-211
RelinkNext(e) == LinkNextBack(e, e.newBlock, e.newBlock)

\* lines 212-215
RelinkPrev(e) ==
    IF PrevAt(e.b, e.newBlock) # Null
    THEN SetNext(e, PrevAt(e.b, e.newBlock), e.newBlock)
    ELSE [e EXCEPT !.head = e.newBlock]

\* line 217.  header->adjustment was loaded at line 166 and is loaded again
\* here, after the FreeBlock record was stored over the same bytes through
\* lvalues of other types: the second load is undefined behaviour and yields
\* either the value loaded first (the compiler keeps it) or the bytes now in
\* memory.  e.reload tells which; a build does the one or the other in every
\* call.  Bad stands for an address above every address of the model.
SecondLoad(e) ==
    IF e.reload THEN Rd(e.b, Plus(e.header, OffAdjustment), PtrBytes)
    ELSE e.adjustment

ZeroStart(e) == [e EXCEPT !.zeroFrom = Plus(e.blockStart, SecondLoad(e))]

\* ZeroedAddresses(ptr_addr, zero_addr): lines 257-262
ZeroedAddresses(e, ptr_addr, zero_addr) ==
    IF ptr_addr = Bad \/ ptr_addr >= zero_addr THEN e
    ELSE IF ~InMem(ptr_addr, zero_addr - ptr_addr) THEN [e EXCEPT !.ok = FALSE]
    ELSE [e EXCEPT !.b = [x \in 0..(MemSize-1) |->
            IF x + m_start >= ptr_addr /\ x + m_start < zero_addr THEN 0 ELSE @[x]]]

\* lines 218-219
ZeroFill(e) == ZeroedAddresses(e, e.zeroFrom, e.blockStart + e.blockSize)

\* what the call leaves (the counters of lines 221-222 are taken from
\* blockSize by the caller of this operator)
FreeOutcome(e) ==
    IF ~e.ok THEN [res |-> "undefined"]
    ELSE [res |-> "ok", b |-> e.b, head |-> e.head, blockStart |-> e.blockStart,
          blockSize |-> e.blockSize, zeroFrom |-> e.zeroFrom,
          newBlock |-> e.newBlock]

FreeRead(e) == FreeBlockEnd(FreeBlockSize(FreeBlockStart(FreeAdjustment(FreeHeader(e)))))

FreeInsert(e) == NewBlockPrev(NewBlockNext(NewBlockSize(NewBlock(Scan(e, Fuel)))))

FreeCoalesce(e) == RelinkPrev(RelinkNext(MergeForward(MergeBack(e))))

\* Free(ptr) on the bytes b with m_freeBlocks = head
Free(b, head, ptr, reload) ==
    FreeOutcome(ZeroFill(ZeroStart(FreeCoalesce(FreeInsert(FreeRead(
        FreeEnv(b, head, ptr, reload)))))))

\* ------------------------------------------------------------ constructor
\* FreeListAllocator(sizeBytes, start): lines 49-57, over a caller's buffer
\* whose bytes all hold `fill` (the buffer comes from malloc: any content)
RawBuffer(fill) ==
    [ok |-> m_size > SizeofFreeBlock, b |-> [x \in 0..(MemSize-1) |-> fill]]

Construct(fill) ==
    SetPrev(SetNext(SetSize(RawBuffer(fill), m_start, m_size), m_start, Null), m_start, Null)

\* the bytes of [a, a+n) all hold v
Filled(b, a, n, v) == \A x \in 0..(n-1) : b[a - m_start + x] = v

\* what the client remembers of the call made last:
\*   written   (free)  the call before it wrote the pattern into this payload
\*   afterOOM  (free)  the call before it was an Allocate that threw
\*   rt        (alloc) it repeats the request of the allocation just freed,
\*                     whose payload the client had written
\*   recov     (alloc) it follows an Allocate that threw and one Free, and asks
\*                     for no more than the freed allocation, same alignment
\*   block     (alloc) the free block the allocation was carved from
Call(op, size, alignment, ptr, block, ok, flags) ==
    [op |-> op, size |-> size, align |-> alignment, ptr |-> ptr, block |-> block,
     ok |-> ok,
     written |-> "written" \in flags, afterOOM |-> "afterOOM" \in flags,
     rt |-> "rt" \in flags, recov |-> "recov" \in flags]

\* no allocator object but the one of the variables above, and no binding
InitAdaptor ==
    /\ arenas = [k \in 1..MaxArenas |->
                   [kind |-> "none", m_start |-> Null, m_currentBlock |-> Null]]
    /\ prevBlock = [x \in Buffers |-> Null]
    /\ handed = {}
    /\ bindings = << >>
    /\ cmp = [done |-> FALSE, tick |-> 0, lhs |-> 0, rhs |-> 0, eq |-> FALSE, ne |-> FALSE]

\* the state after FreeListAllocator(sizeBytes, start) ran over a fresh buffer
Constructed(sizeBytes, start) ==
    /\ m_start = start
    /\ m_size = sizeBytes
    /\ \E fill \in InitFill : mem = Construct(fill).b
    /\ m_freeBlocks = m_start
    /\ m_usedBytes = 0
    /\ m_numAllocations = 0
    /\ live = {}
    /\ last = Call("init", 0, 0, Null, Null, TRUE, {})
    /\ status = "ok"
    /\ build \in {"cached", "reloaded"}
    /\ ops = 0
    /\ InitAdaptor
    /\ alignCall = [done |-> FALSE, ptr |-> Null, alignment |-> 1, adjustment |-> 0]

Init == Constructed(ArenaSize, Start)

\* ---------------------------------------------------------------- actions
DoAllocate(size, alignment) ==
    /\ status = "ok"
    /\ ops' = ops + 1
    /\ UNCHANGED <<m_start, m_size, build, adaptorVars, alignCall>>
    /\ LET r == Allocate(mem, m_freeBlocks, size, alignment)
           flags == (IF last.op = "free" /\ last.written
                        /\ last.size = size /\ last.align = alignment
                     THEN {"rt"} ELSE {})
                    \cup
                    (IF last.op = "free" /\ last.afterOOM
                        /\ size <= last.size /\ last.align = alignment
                     THEN {"recov"} ELSE {})
       IN CASE r.res = "undefined" ->
                 /\ status' = "undefined"
                 /\ UNCHANGED <<mem, m_freeBlocks, m_usedBytes, m_numAllocations, live, last>>
            [] r.res = "bad_alloc" ->
                 /\ mem' = r.b
                 /\ m_freeBlocks' = r.head
                 /\ last' = Call("alloc", size, alignment, Null, Null, FALSE, flags)
                 /\ UNCHANGED <<m_usedBytes, m_numAllocations, live, status>>
            [] r.res = "ok" ->
                 /\ mem' = r.b
                 /\ m_freeBlocks' = r.head
                 /\ m_usedBytes' = m_usedBytes + r.total
                 /\ m_numAllocations' = m_numAllocations + 1
                 /\ live' = live \cup {[ptr |-> r.ptr, size |-> size, align |-> alignment,
                                        block |-> r.block, total |-> r.total]}
                 /\ last' = Call("alloc", size, alignment, r.ptr, r.block, TRUE, flags)
                 /\ UNCHANGED status

DoFree(a) ==
    /\ status = "ok"
    /\ ops' = ops + 1
    /\ UNCHANGED <<m_start, m_size, build, adaptorVars, alignCall>>
    /\ a \in live
    /\ LET r == Free(mem, m_freeBlocks, a.ptr, build = "reloaded")
           flags == (IF last.op = "write" /\ last.ptr = a.ptr THEN {"written"} ELSE {})
                    \cup
                    (IF last.op = "alloc" /\ ~last.ok THEN {"afterOOM"} ELSE {})
       IN IF r.res = "undefined"
          THEN /\ status' = "undefined"
               /\ UNCHANGED <<mem, m_freeBlocks, m_usedBytes, m_numAllocations, live, last>>
          ELSE /\ mem' = r.b
               /\ m_freeBlocks' = r.head
               /\ m_numAllocations' = m_numAllocations - 1
               /\ m_usedBytes' = m_usedBytes - r.blockSize
               /\ live' = live \ {a}
               /\ last' = Call("free", a.size, a.align, a.ptr, a.block, TRUE, flags)
               /\ UNCHANGED status

\* the client fills the payload it was just given with a non-zero pattern
WritePayload(a) ==
    /\ status = "ok"
    /\ ops' = ops + 1
    /\ UNCHANGED <<m_start, m_size, build, adaptorVars, alignCall>>
    /\ a \in live
    /\ last.op = "alloc" /\ last.ptr = a.ptr
    /\ InMem(a.ptr, a.size)
    /\ mem' = [x \in 0..(MemSize-1) |->
                 IF x + m_start >= a.ptr /\ x + m_start < a.ptr + a.size THEN Pattern
                 ELSE mem[x]]
    /\ last' = Call("write", a.size, a.align, a.ptr, a.block, TRUE, {})
    /\ UNCHANGED <<m_freeBlocks, m_usedBytes, m_numAllocations, live, status>>

Next ==
    \/ \E rq \in Requests : ops < MaxOps /\ DoAllocate(rq[1], rq[2])
    \/ \E a \in live : ops < MaxOps /\ DoFree(a)
    \/ \E a \in live : ops < MaxOps /\ WritePayload(a)

Spec == Init /\ [][Next]_vars

\* The coalescing scenario: three Allocate calls of one request, then Free
\* calls only.
CoalesceRequests == {<<1, 1>>, <<2, 1>>, <<2, 2>>, <<2, 8>>, <<8, 8>>}

NextCoalesce ==
    \/ \E rq \in CoalesceRequests :
          /\ ops < 3
          /\ ops > 0 => (last.ok /\ rq = <<last.size, last.align>>)
          /\ DoAllocate(rq[1], rq[2])
    \/ \E a \in live :
          /\ ops >= 3 /\ ops < MaxOps
          /\ DoFree(a)

SpecCoalesce == Init /\ [][NextCoalesce]_vars

\* Every alignment of the alignment law, in shorter runs.
WideOps == 4

WideRequests == {<<2, 1>>, <<2, 2>>, <<8, 4>>, <<8, 8>>, <<2, 16>>, <<8, 32>>}

NextWide ==
    \/ \E rq \in WideRequests : ops < WideOps /\ DoAllocate(rq[1], rq[2])
    \/ \E a \in live : ops < WideOps /\ DoFree(a)

SpecWide == Init /\ [][NextWide]_vars

\* Longer runs over a larger arena at a higher address: the client fills
\* the arena, frees two allocations, allocates once more and frees two more.
LongArenaSize == 192
LongStart == 16384
LongFill == 5
LongFrees == 2

LongRequests == {<<1, 1>>, <<12, 8>>}

InitLong == Constructed(LongArenaSize, LongStart)

NextLong ==
    \/ \E rq \in LongRequests :
          /\ ops < LongFill \/ ops = LongFill + LongFrees
          /\ DoAllocate(rq[1], rq[2])
    \/ \E a \in live :
          /\ ops >= LongFill /\ ops <= LongFill + 2 * LongFrees
          /\ ops # LongFill + LongFrees
          /\ DoFree(a)

SpecLong == InitLong /\ [][NextLong]_vars

\* ------------------------------------------------- STLAdaptor (STLAdaptor.h)
\* Allocator::GetStart
GetStart(al) == al.m_start

\* a variant of the walk whose loop tests the block itself, not its prevBlock
RECURSIVE WalkPastRoot(_, _, _)
WalkPastRoot(pb, a, fuel) ==
    IF a # Null /\ fuel > 0 THEN WalkPastRoot(pb, pb[a], fuel - 1) ELSE a

\* while (a->prevBlock != nullptr) a = a->prevBlock;   lines 68-73, 75-79
RECURSIVE WalkToRoot(_, _, _)
WalkToRoot(pb, a, fuel) ==
    IF pb[a] # Null /\ fuel > 0 THEN WalkToRoot(pb, pb[a], fuel - 1) ELSE a

\* line 56
SameStart(l, r) == GetStart(l) = GetStart(r)

\* operator==: lines 52-83, on the allocators l and r the two bindings refer
\* to; both are of the one type Alloc the bindings were instantiated with
OperatorEq(pb, l, r) ==
    IF l.kind = "fixed" THEN SameStart(l, r)
    ELSE IF l.kind # "dynamic" \/ r.kind # "dynamic" THEN FALSE
    ELSE WalkToRoot(pb, l.m_currentBlock, Fuel) = WalkToRoot(pb, r.m_currentBlock, Fuel)

\* operator!=: lines 86-89
OperatorNe(pb, l, r) == ~OperatorEq(pb, l, r)

\* FixedAllocator(sizeBytes, start) over a buffer just obtained from malloc
ConstructFixed(k, start) ==
    /\ arenas[k].kind = "none"
    /\ start \notin handed
    /\ handed' = handed \cup {start}
    /\ arenas' = [arenas EXCEPT ![k] =
                    [kind |-> "fixed", m_start |-> start, m_currentBlock |-> Null]]
    /\ UNCHANGED <<prevBlock, bindings, cmp, allocatorVars, alignCall>>

\* DynamicAllocator(sizeBytes, start): DynamicAllocator.h lines 10-14
ConstructDynamic(k, start) ==
    /\ arenas[k].kind = "none"
    /\ start \notin handed
    /\ handed' = handed \cup {start}
    /\ arenas' = [arenas EXCEPT ![k] =
                    [kind |-> "dynamic", m_start |-> start, m_currentBlock |-> start]]
    /\ prevBlock' = [prevBlock EXCEPT ![start] = Null]
    /\ UNCHANGED <<bindings, cmp, allocatorVars, alignCall>>

\* a growable arena takes a further block and chains it to the one in use
Grow(k, blk) ==
    /\ arenas[k].kind = "dynamic"
    /\ blk \notin handed
    /\ Cardinality({b \in handed : WalkToRoot(prevBlock, b, Fuel)
                                     = WalkToRoot(prevBlock, arenas[k].m_currentBlock, Fuel)})
          < MaxChain
    /\ handed' = handed \cup {blk}
    /\ prevBlock' = [prevBlock EXCEPT ![blk] = arenas[k].m_currentBlock]
    /\ arenas' = [arenas EXCEPT ![k].m_currentBlock = blk]
    /\ UNCHANGED <<bindings, cmp, allocatorVars, alignCall>>

\* Allocator(Allocator&&): Allocator.h lines 50-61, for a fixed allocator
MoveFixed(k, j) ==
    /\ arenas[k].kind = "fixed"
    /\ arenas[j].kind = "none"
    /\ arenas' = [arenas EXCEPT ![j] = arenas[k], ![k].m_start = Null]
    /\ UNCHANGED <<prevBlock, handed, bindings, cmp, allocatorVars, alignCall>>

\* STLAdaptor(Alloc& allocator): lines 18-21, and the copy of lines 24-28,
\* which binds to the same allocator
Bind(k) ==
    /\ arenas[k].kind # "none"
    /\ Len(bindings) < MaxBindings
    /\ bindings' = Append(bindings, k)
    /\ UNCHANGED <<arenas, prevBlock, handed, cmp, allocatorVars, alignCall>>

\* a == b and a != b for two bindings of one type
Compare(i, j) ==
    /\ arenas[bindings[i]].kind = arenas[bindings[j]].kind
    /\ cmp' = [done |-> TRUE, tick |-> 1 - cmp.tick, lhs |-> i, rhs |-> j,
               eq |-> OperatorEq(prevBlock, arenas[bindings[i]], arenas[bindings[j]]),
               ne |-> OperatorNe(prevBlock, arenas[bindings[i]], arenas[bindings[j]])]
    /\ UNCHANGED <<arenas, prevBlock, handed, bindings, allocatorVars, alignCall>>

\* malloc returns a buffer no earlier call returned: the lowest one left
FreshBuffer == {b \in Buffers \ handed : \A c \in Buffers \ handed : b <= c}

NextAdaptor ==
    \/ \E k \in 1..MaxArenas, start \in FreshBuffer : ConstructFixed(k, start)
    \/ \E k \in 1..MaxArenas, start \in FreshBuffer : ConstructDynamic(k, start)
    \/ \E k \in 1..MaxArenas, blk \in FreshBuffer : Grow(k, blk)
    \/ \E k \in 1..MaxArenas, j \in 1..MaxArenas : MoveFixed(k, j)
    \/ \E k \in 1..MaxArenas : Bind(k)
    \/ \E i \in 1..Len(bindings), j \in 1..Len(bindings) : Compare(i, j)

\* the bindings do not depend on how Free was built
InitAdaptorOnly == Init /\ build = "cached"

SpecAdaptor == InitAdaptorOnly /\ [][NextAdaptor]_vars


\* ------------------------------------------ the alignment function alone
\* the powers of two asked for; the addresses lie far below the top of the
\* address space, where the unsigned sums of lines 230-238 do not wrap
Alignments == {1, 2, 4, 8, 16, 32, 64, 128}

AlignCall(ptr, alignment) ==
    /\ alignCall' = [done |-> TRUE, ptr |-> ptr, alignment |-> alignment,
                     adjustment |-> align_forward_adjustment_with_header(ptr, alignment)]
    /\ UNCHANGED <<allocatorVars, adaptorVars>>

NextAlign ==
    \E ptr \in Start..(Start + AlignSpan), alignment \in Alignments :
        AlignCall(ptr, alignment)

SpecAlign == InitAdaptorOnly /\ [][NextAlign]_vars

\* ------------------------------------------------------------ observation
\* the free list as the sequence of block addresses reached from the head
RECURSIVE Chain(_, _, _)
Chain(b, blk, fuel) ==
    IF blk = Null \/ blk = Bad \/ fuel = 0 THEN << >>
    ELSE <<blk>> \o Chain(b, NextAt(b, blk), fuel - 1)

FreeSeq == Chain(mem, m_freeBlocks, Fuel)

RECURSIVE SumSeq(_, _)
SumSeq(f, n) == IF n = 0 THEN 0 ELSE f[n] + SumSeq(f, n - 1)

SumFree == SumSeq([i \in 1..Len(FreeSeq) |-> SizeAt(mem, FreeSeq[i])], Len(FreeSeq))

\* header.size of a live allocation, as stored in front of its payload
HeaderSize(a) == Rd(mem, a.ptr - SizeofHeader, IntBytes)

HeaderAdjustment(a) == Rd(mem, a.ptr - SizeofHeader + OffAdjustment, PtrBytes)

RECURSIVE SumLive(_)
SumLive(S) ==
    IF S = {} THEN 0
    ELSE LET a == CHOOSE x \in S : TRUE IN HeaderSize(a) + SumLive(S \ {a})

\* ----------------------------------------------------------------- claims

\* C1: the sizes of the free blocks plus the footprints (header.size) of the
\* live allocations add up to the arena size in every state.
C1_Conservation == SumFree + SumLive(live) = m_size

\* C2: once every successful Allocate has been matched by a Free of the
\* pointer it returned, GetUsed() and GetNumAllocation() are both 0.
C2_MatchedPairsZero == (live = {}) => (m_usedBytes = 0 /\ m_numAllocations = 0)

\* C3: the free list is a well-formed doubly linked chain: the head has no
\* prev, every successor points back to its predecessor, addresses strictly
\* increase along next, and consecutive blocks do not overlap.
C3_WellFormedList ==
    /\ Len(FreeSeq) < Fuel
    /\ (FreeSeq # << >> => PrevAt(mem, FreeSeq[1]) = Null)
    /\ \A i \in 1..(Len(FreeSeq) - 1) :
          /\ PrevAt(mem, FreeSeq[i + 1]) = FreeSeq[i]
          /\ FreeSeq[i] < FreeSeq[i + 1]
          /\ FreeSeq[i] + SizeAt(mem, FreeSeq[i]) <= FreeSeq[i + 1]

\* C10: used <= size, and the allocation count is 0 exactly when used is 0;
\* so the destructor's assertion passes exactly when nothing is live.
DestructorAssertion == m_numAllocations = 0 /\ m_usedBytes = 0

C10_Counters ==
    /\ m_usedBytes >= 0 /\ m_usedBytes <= m_size
    /\ (m_numAllocations = 0 <=> m_usedBytes = 0)
    /\ (DestructorAssertion <=> live = {})

\* C4: three equal requests on a fresh arena, then the three pointers freed
\* in any order: the free list is one block at the arena start whose size is
\* the arena size.
C4_Coalesced ==
    (ops = 6 /\ live = {} /\ status = "ok")
        => (FreeSeq = <<m_start>> /\ SizeAt(mem, m_start) = m_size)

\* C5: after an Allocate that threw and the Free of one live allocation that
\* had asked for (S, a), Allocate(S', a) with S' <= S succeeds.
C5_Recovery == (last.op = "alloc" /\ last.recov) => last.ok

\* a block qualifies for a request: its size exceeds size + adjustment + header
Qualifies(b, blk, size, alignment) ==
    SizeAt(b, blk) > size + align_forward_adjustment_with_header(blk, alignment)
                          + SizeofHeader

AllocateStep == ops' = ops + 1 /\ status' = "ok" /\ last'.op = "alloc"

\* C6: when no free block qualifies, Allocate throws, returns no pointer and
\* leaves the counters, the list head and every byte of the arena as they were.
C6_OutOfMemoryNoChange ==
    [][(AllocateStep
        /\ \A i \in 1..Len(FreeSeq) :
              ~Qualifies(mem, FreeSeq[i], last'.size, last'.align))
       => (/\ ~last'.ok
           /\ last'.ptr = Null
           /\ UNCHANGED <<mem, m_freeBlocks, m_usedBytes, m_numAllocations, live>>)]_vars

C6_Witness ==
    /\ last.op = "alloc" /\ ~last.ok
    /\ FreeSeq # << >>
    /\ live # {}

\* C7: a successful Allocate carves from a qualifying block of minimal size,
\* and among the qualifying blocks of that size from the one met first.
C7_BestFit ==
    [][(AllocateStep /\ last'.ok)
       => \E i \in 1..Len(FreeSeq) :
             /\ FreeSeq[i] = last'.block
             /\ Qualifies(mem, FreeSeq[i], last'.size, last'.align)
             /\ \A j \in 1..Len(FreeSeq) :
                   Qualifies(mem, FreeSeq[j], last'.size, last'.align)
                   => \/ SizeAt(mem, FreeSeq[i]) < SizeAt(mem, FreeSeq[j])
                      \/ /\ SizeAt(mem, FreeSeq[i]) = SizeAt(mem, FreeSeq[j])
                         /\ i <= j
                         /\ FreeSeq[i] <= FreeSeq[j]]_vars

\* a qualifying block that lies before the chosen one was passed over
C7_Witness ==
    /\ last.op = "alloc" /\ last.ok
    /\ \E i \in 1..Len(FreeSeq) :
          /\ FreeSeq[i] < last.block
          /\ Qualifies(mem, FreeSeq[i], last.size, last.align)

\* C8: every pointer Allocate returned is a multiple of the alignment asked
\* for, and its header starts at or after the start of the block carved.
C8_Alignment ==
    \A a \in live :
        /\ a.ptr % a.align = 0
        /\ a.ptr - SizeofHeader >= a.block

\* three live allocations, one of them aligned to 32 in a block that is not
C8_Witness ==
    /\ Cardinality(live) = 3
    /\ \E a \in live : a.align = 32 /\ a.block % 32 # 0 /\ a.ptr - a.block > SizeofHeader

\* C9: Allocate(n, a), pattern written, Free, Allocate(n, a) again: the second
\* call succeeds and its payload reads as zero.
C9_RoundTrip ==
    (last.op = "alloc" /\ last.rt) => (last.ok /\ Filled(mem, last.ptr, last.size, 0))

\* the blocks met from blk along prevBlock in at most n steps
RECURSIVE Ancestors(_, _)
Ancestors(blk, n) ==
    IF n = 0 THEN {blk}
    ELSE Ancestors(blk, n - 1)
         \cup ({prevBlock[b] : b \in Ancestors(blk, n - 1)} \ {Null})

\* the root of the chain blk belongs to: its one block without a prevBlock
RootBlock(blk) == CHOOSE b \in Ancestors(blk, MaxBuffers) : prevBlock[b] = Null

\* C11: two bindings over the same allocator compare equal (== true, != false);
\* two bindings over different allocators that each hold their own backing
\* range compare unequal; for growable arenas == is true exactly when the
\* prevBlock chains of the two sides end in the same root block.
C11_EqualityLaw ==
    [][(cmp'.tick # cmp.tick)
       => LET l == arenas[bindings[cmp'.lhs]]
              r == arenas[bindings[cmp'.rhs]]
          IN /\ cmp'.ne = ~cmp'.eq
             /\ (bindings[cmp'.lhs] = bindings[cmp'.rhs]) => cmp'.eq
             /\ (/\ bindings[cmp'.lhs] # bindings[cmp'.rhs]
                 /\ l.m_start # Null /\ r.m_start # Null) => ~cmp'.eq
             /\ (l.kind = "dynamic")
                   => (cmp'.eq <=> RootBlock(l.m_currentBlock) = RootBlock(r.m_currentBlock))]_vars

\* two bindings over different growable arenas, one of them grown, were compared
C11_Witness ==
    /\ cmp.done /\ ~cmp.eq /\ cmp.ne
    /\ bindings[cmp.lhs] # bindings[cmp.rhs]
    /\ arenas[bindings[cmp.lhs]].kind = "dynamic"
    /\ prevBlock[arenas[bindings[cmp.lhs]].m_currentBlock] # Null

\* C12: when Allocate splits the block it selected, the remainder is at least
\* sizeof(FreeBlock) bytes long, so that the record written at its start lies
\* inside the remainder and inside the arena.
C12_RemainderHostsRecord ==
    [][(AllocateStep /\ last'.ok)
       => \A a \in live' :
             (/\ a.ptr = last'.ptr /\ a.block = last'.block
              /\ a.total < SizeAt(mem, last'.block))
             => /\ SizeAt(mem, last'.block) - a.total >= SizeofFreeBlock
                /\ InArena(a.block + a.total, SizeofFreeBlock)]_vars

\* C13: the header in front of every live payload keeps the size and the
\* adjustment its Allocate wrote, whatever calls are made in between.
C13_LiveHeaderIntact ==
    \A a \in live :
        /\ HeaderSize(a) = a.total
        /\ HeaderAdjustment(a) = a.ptr - a.block

FreeStep == ops' = ops + 1 /\ status' = "ok" /\ last'.op = "free"

\* C14: Free(p) zeroes the bytes from p up to the end of the freed block
\* (blockStart + blockSize as Free recovered them) and starts nowhere else.
C14_ZeroFillRange ==
    [][FreeStep
       => LET r == Free(mem, m_freeBlocks, last'.ptr, build = "reloaded")
          IN /\ r.zeroFrom = last'.ptr
             /\ \A x \in 0..(MemSize - 1) :
                   (x + m_start >= last'.ptr /\ x + m_start < r.blockStart + r.blockSize)
                   => mem'[x] = 0]_vars

\* C15: the search loop of Allocate stores only values already present: the
\* bytes of the arena after the loop are those before the call.
C15_SearchWritesNothing ==
    [][AllocateStep
       => Search(AllocEnv(mem, m_freeBlocks, last'.size, last'.align), Fuel).b = mem]_vars

\* C16: for every address and every power-of-two alignment the function
\* returns the smallest adjustment that is at least sizeof(AllocationHeader)
\* and makes ptr + adjustment a multiple of the alignment.
C16_MinimalAdjustment ==
    alignCall.done
    => /\ alignCall.adjustment >= SizeofHeader
       /\ (alignCall.ptr + alignCall.adjustment) % alignCall.alignment = 0
       /\ \A d \in SizeofHeader..(alignCall.adjustment - 1) :
             (alignCall.ptr + d) % alignCall.alignment # 0

\* an address off the alignment whose first aligned successor is too close
\* for the header, so that the adjustment was rounded up
C16_Witness ==
    /\ alignCall.done
    /\ alignCall.alignment = 32
    /\ alignCall.ptr % 32 > 16
    /\ alignCall.adjustment > 32

\* C17: after Free(p) the record of the free block that holds the freed range
\* (the freed block, or the predecessor it was merged into) is on the list
\* with size = freed size + sizes of the adjacent free neighbours, and with
\* next and prev naming the free blocks around it.
C17_FreedRecordIntact ==
    [][FreeStep
       => LET B == last'.block
              T == (CHOOSE a \in live : a.ptr = last'.ptr /\ a.block = last'.block).total
              before == {FreeSeq[i] : i \in 1..Len(FreeSeq)}
              lower == {b \in before : b < B}
              upper == {b \in before : b > B}
              pred == IF lower = {} THEN Null
                      ELSE CHOOSE b \in lower : \A c \in lower : c <= b
              succ == IF upper = {} THEN Null
                      ELSE CHOOSE b \in upper : \A c \in upper : b <= c
              predAdj == pred # Null /\ pred + SizeAt(mem, pred) = B
              succAdj == succ # Null /\ B + T = succ
              X == IF predAdj THEN pred ELSE B
          IN /\ \E i \in 1..Len(FreeSeq') : FreeSeq'[i] = X
             /\ SizeAt(mem', X) = T + (IF predAdj THEN SizeAt(mem, pred) ELSE 0)
                                    + (IF succAdj THEN SizeAt(mem, succ) ELSE 0)
             /\ NextAt(mem', X) = (IF succAdj THEN NextAt(mem, succ) ELSE succ)
             /\ PrevAt(mem', X) = (IF predAdj THEN PrevAt(mem, pred) ELSE pred)]_vars

\* C18: the header and payload bytes of the live allocations lie inside the
\* arena, no two live allocations share a byte (nor a pointer), and no live
\* byte lies inside [b, b + b.size) of a block b on the free list.
C18_LiveRangesDisjoint ==
    /\ Cardinality(live) = m_numAllocations
    /\ \A a \in live : InArena(a.ptr - SizeofHeader, SizeofHeader + a.size)
    /\ \A a, c \in live :
          a # c => (a.ptr + a.size <= c.ptr - SizeofHeader
                    \/ c.ptr + c.size <= a.ptr - SizeofHeader)
    /\ \A a \in live : \A i \in 1..Len(FreeSeq) :
          \/ FreeSeq[i] + SizeAt(mem, FreeSeq[i]) <= a.ptr - SizeofHeader
          \/ a.ptr + a.size <= FreeSeq[i]

\* C19: coalescing is complete: after construction and after every Allocate
\* or Free, every free block b with a successor n on the list has
\* address(b) + b.size < address(n), strictly.
C19_NoAdjacentFreeBlocks ==
    \A i \in 1..(Len(FreeSeq) - 1) :
        /\ SizeAt(mem, FreeSeq[i]) # Bad
        /\ FreeSeq[i] + SizeAt(mem, FreeSeq[i]) < FreeSeq[i + 1]
====
